---- MODULE Spec2Model ----
(***************************************************************************)
(* MSDScript: the expression model (Expr.cpp) and the recursive-descent    *)
(* parser (parse.cpp).  Text is a sequence of one-character strings; an    *)
(* expression is a record tagged with the class that built it.             *)
(***************************************************************************)
EXTENDS Integers, Sequences, FiniteSets

VARIABLES input, expr, other, text, parsed, env, val, eq, op

vars == <<input, expr, other, text, parsed, env, val, eq, op>>

(* ------------------------------ bounds --------------------------------- *)

\* Expressions of Spec have at most this many nodes.
MaxNodes == 4

\* Each expression of a pair of SpecEq has at most this many nodes.
MaxEqNodes == 3

\* Free-form inputs of SpecParse have at most this many tokens.
MaxTokens == 4

\* Operator chains of SpecParse have at most this many operands.
MaxOperands == 4

(* ---------------------------- characters ------------------------------- *)

EOF == "EOF"

DigitSeq == <<"0", "1", "2", "3", "4", "5", "6", "7", "8", "9">>

isdigit(c) == \E i \in 1..10 : DigitSeq[i] = c

isalpha(c) ==
    c \in {"a", "b", "c", "d", "e", "f", "g", "h", "i", "j", "k", "l", "m",
           "n", "o", "p", "q", "r", "s", "t", "u", "v", "w", "x", "y", "z",
           "A", "B", "C", "D", "E", "F", "G", "H", "I", "J", "K", "L", "M",
           "N", "O", "P", "Q", "R", "S", "T", "U", "V", "W", "X", "Y", "Z"}

isspace(c) == c \in {" ", "\t", "\n", "\r", "\f"}

\* c - '0' for a digit c
DigitVal(c) == (CHOOSE i \in 1..10 : DigitSeq[i] = c) - 1

RECURSIVE Digits(_)
Digits(n) == IF n < 10 THEN <<DigitSeq[n + 1]>>
             ELSE Digits(n \div 10) \o <<DigitSeq[(n % 10) + 1]>>

\* the digits of n <= 0, taken from n itself: 0 - n is no int for the least int
RECURSIVE NegDigits(_)
NegDigits(n) ==
    IF n > 0 - 10 THEN <<DigitSeq[(0 - n) + 1]>>
    ELSE NegDigits((n + ((10 - (n % 10)) % 10)) \div 10)
             \o <<DigitSeq[((10 - (n % 10)) % 10) + 1]>>

\* ::to_string(int)
IntToString(n) == IF n < 0 THEN <<"-">> \o NegDigits(n) ELSE Digits(n)

\* string(count, ' ')
RECURSIVE Spaces(_)
Spaces(n) == IF n <= 0 THEN <<>> ELSE <<" ">> \o Spaces(n - 1)

(* ---------------------------- expressions ------------------------------ *)

\* The member `val` of NumExpr is the field rep here and that of BoolExpr the
\* field b (named after the constructors' parameters): records that share a
\* field must agree on its type.

NoExpr == [kind |-> "none"]

NumExpr(rep) == [kind |-> "Num", rep |-> rep]

BoolExpr(b) == [kind |-> "Bool", b |-> b]

VarExpr(v) == [kind |-> "Var", val |-> v]

AddExpr(l, r) == [kind |-> "Add", lhs |-> l, rhs |-> r]

MultExpr(l, r) == [kind |-> "Mult", lhs |-> l, rhs |-> r]

EqExpr(l, r) == [kind |-> "Eq", lhs |-> l, rhs |-> r]

LetExpr(l, r, b) == [kind |-> "Let", lhs |-> l, rhs |-> r, body |-> b]

IfExpr(c, t, e) == [kind |-> "If", if_ |-> c, then_ |-> t, else_ |-> e]

FunExpr(a, b) == [kind |-> "Fun", formal_arg |-> a, body |-> b]

CallExpr(f, a) == [kind |-> "Call", to_be_called |-> f, actual_arg |-> a]

(* ------------------------------- equals -------------------------------- *)

\* CAST(T)(e): the dynamic cast succeeds exactly on an object of class T
CAST(k, e) == e.kind = k

RECURSIVE equals(_, _)

AddExpr_equals(this, e) ==
    IF ~CAST("Add", e) THEN FALSE
    ELSE equals(this.lhs, e.lhs) /\ equals(this.rhs, e.rhs)

MultExpr_equals(this, e) ==
    IF ~CAST("Mult", e) THEN FALSE
    ELSE equals(this.lhs, e.lhs) /\ equals(this.rhs, e.rhs)

NumExpr_equals(this, e) ==
    IF ~CAST("Num", e) THEN FALSE ELSE this.rep = e.rep

VarExpr_equals(this, e) ==
    IF ~CAST("Var", e) THEN FALSE ELSE this.val = e.val

\* LetExpr::equals without the comparison of the bound names
LetExpr_equals_lhs_ignored(this, e) ==
    IF ~CAST("Let", e) THEN FALSE
    ELSE equals(this.rhs, e.rhs) /\ equals(this.body, e.body)

LetExpr_equals(this, e) ==
    IF ~CAST("Let", e) THEN FALSE
    ELSE this.lhs = e.lhs /\ equals(this.rhs, e.rhs) /\ equals(this.body, e.body)

BoolExpr_equals(this, e) ==
    IF ~CAST("Bool", e) THEN FALSE ELSE this.b = e.b

IfExpr_equals(this, e) ==
    IF ~CAST("If", e) THEN FALSE
    ELSE equals(this.if_, e.if_) /\ equals(this.then_, e.then_)
         /\ equals(this.else_, e.else_)

EqExpr_equals(this, e) ==
    IF ~CAST("Eq", e) THEN FALSE
    ELSE equals(this.rhs, e.rhs) /\ equals(this.lhs, e.lhs)

FunExpr_equals(this, e) ==
    IF ~CAST("Fun", e) THEN FALSE
    ELSE this.formal_arg = e.formal_arg /\ equals(this.body, e.body)

CallExpr_equals(this, e) ==
    IF ~CAST("Call", e) THEN FALSE
    ELSE equals(this.to_be_called, e.to_be_called)
         /\ equals(this.actual_arg, e.actual_arg)

\* virtual dispatch of Expr::equals on the class of `this`
equals(this, e) ==
    CASE this.kind = "Add" -> AddExpr_equals(this, e)
      [] this.kind = "Mult" -> MultExpr_equals(this, e)
      [] this.kind = "Num" -> NumExpr_equals(this, e)
      [] this.kind = "Var" -> VarExpr_equals(this, e)
      [] this.kind = "Let" -> LetExpr_equals(this, e)
      [] this.kind = "Bool" -> BoolExpr_equals(this, e)
      [] this.kind = "If" -> IfExpr_equals(this, e)
      [] this.kind = "Eq" -> EqExpr_equals(this, e)
      [] this.kind = "Fun" -> FunExpr_equals(this, e)
      [] this.kind = "Call" -> CallExpr_equals(this, e)

(* -------------------------------- print -------------------------------- *)

RECURSIVE print(_)

AddExpr_print(this) ==
    <<"(">> \o print(this.lhs) \o <<"+">> \o print(this.rhs) \o <<")">>

MultExpr_print(this) ==
    <<"(">> \o print(this.lhs) \o <<"*">> \o print(this.rhs) \o <<")">>

NumExpr_print(this) == IntToString(this.rep)

VarExpr_print(this) == this.val

LetExpr_print(this) ==
    <<"(", "_", "l", "e", "t", " ">> \o this.lhs \o <<"=">> \o print(this.rhs)
    \o <<" ", "_", "i", "n", " ">> \o print(this.body) \o <<")">>

BoolExpr_print(this) ==
    IF this.b THEN <<"_", "t", "r", "u", "e">>
    ELSE <<"_", "f", "a", "l", "s", "e">>

IfExpr_print(this) ==
    <<"(", "_", "i", "f">> \o print(this.if_) \o <<"_", "t", "h", "e", "n">>
    \o print(this.then_) \o <<"_", "e", "l", "s", "e">> \o print(this.else_)
    \o <<")">>

EqExpr_print(this) ==
    <<"(">> \o print(this.rhs) \o <<"=", "=">> \o print(this.lhs) \o <<")">>

FunExpr_print(this) ==
    <<"_", "f", "u", "n", " ", "(">> \o this.formal_arg \o <<")", " ">>
    \o print(this.body)

CallExpr_print(this) ==
    <<"(">> \o print(this.to_be_called) \o <<")", " ", "(">>
    \o print(this.actual_arg) \o <<")">>

\* virtual dispatch of Expr::print
print(this) ==
    CASE this.kind = "Add" -> AddExpr_print(this)
      [] this.kind = "Mult" -> MultExpr_print(this)
      [] this.kind = "Num" -> NumExpr_print(this)
      [] this.kind = "Var" -> VarExpr_print(this)
      [] this.kind = "Let" -> LetExpr_print(this)
      [] this.kind = "Bool" -> BoolExpr_print(this)
      [] this.kind = "If" -> IfExpr_print(this)
      [] this.kind = "Eq" -> EqExpr_print(this)
      [] this.kind = "Fun" -> FunExpr_print(this)
      [] this.kind = "Call" -> CallExpr_print(this)

\* Expr::to_string
to_string(this) == print(this)

(* ----------------------------- pretty print ---------------------------- *)

\* precedence_t
prec_none == 0

prec_add == 1

prec_mult == 2

\* The printer's state: the ostream written so far and the streampos
\* passed by reference through the recursion.
PState(out, strmpos) == [out |-> out, strmpos |-> strmpos]

\* ostream << s
Put(st, s) == [st EXCEPT !.out = @ \o s]

\* ostream.tellp()
tellp(st) == Len(st.out)

RECURSIVE pretty_print_at(_, _, _, _)

\* Expr::pretty_print_at, inherited by NumExpr and VarExpr
Expr_pretty_print_at(this, st, prec, let_parent) == Put(st, print(this))

AddExpr_pretty_print_at(this, st, prec, let_parent) ==
    LET s1 == IF prec >= prec_add THEN Put(st, <<"(">>) ELSE st
        s2 == pretty_print_at(this.lhs, s1, prec_add, TRUE)
        s3 == Put(s2, <<" ", "+", " ">>)
        s4 == pretty_print_at(this.rhs, s3, prec_none, let_parent)
    IN  IF prec >= prec_add THEN Put(s4, <<")">>) ELSE s4

MultExpr_pretty_print_at(this, st, prec, let_parent) ==
    LET parent == IF prec >= prec_mult THEN FALSE ELSE let_parent
        s1 == IF prec >= prec_mult THEN Put(st, <<"(">>) ELSE st
        s2 == pretty_print_at(this.lhs, s1, prec_mult, TRUE)
        s3 == Put(s2, <<" ", "*", " ">>)
        s4 == pretty_print_at(this.rhs, s3, prec_add, parent)
    IN  IF prec >= prec_mult THEN Put(s4, <<")">>) ELSE s4

LetExpr_pretty_print_at(this, st, prec, let_parent) ==
    LET s1 == IF let_parent THEN Put(st, <<"(">>) ELSE st
        startPosition == tellp(s1)
        depth == startPosition - s1.strmpos
        s2 == Put(s1, <<"_", "l", "e", "t", " ">> \o this.lhs \o <<" ", "=", " ">>)
        s3 == pretty_print_at(this.rhs, s2, prec_none, FALSE)
        s4 == Put(s3, <<"\n">>)
        s5 == [s4 EXCEPT !.strmpos = tellp(s4)]
        s6 == Put(s5, Spaces(depth) \o <<"_", "i", "n", " ", " ">>)
        s7 == pretty_print_at(this.body, s6, prec_none, FALSE)
    IN  IF let_parent THEN Put(s7, <<")">>) ELSE s7

BoolExpr_pretty_print_at(this, st, prec, let_parent) ==
    IF this.b THEN Put(st, <<"_", "t", "r", "u", "e">>)
    ELSE Put(st, <<"_", "f", "a", "l", "s", "e">>)

IfExpr_pretty_print_at(this, st, prec, let_parent) ==
    LET s1 == IF let_parent THEN Put(st, <<"(">>) ELSE st
        s2 == Put(s1, <<"_", "i", "f", " ">>)
        s3 == pretty_print_at(this.if_, s2, prec_none, FALSE)
        s4 == Put(s3, <<"\n">>)
        s5 == [s4 EXCEPT !.strmpos = tellp(s4)]
        s6 == Put(s5, <<"_", "t", "h", "e", "n", " ">>)
        s7 == pretty_print_at(this.then_, s6, prec_none, FALSE)
        s8 == Put(Put(s7, <<"\n">>), <<"_", "e", "l", "s", "e", " ">>)
        s9 == [s8 EXCEPT !.strmpos = tellp(s8)]
        s10 == pretty_print_at(this.else_, s9, prec_none, FALSE)
        s11 == IF let_parent THEN Put(s10, <<")">>) ELSE s10
    IN  Put(s11, <<"\n">>)

EqExpr_pretty_print_at(this, st, prec, let_parent) ==
    LET s1 == IF let_parent THEN Put(st, <<"(">>) ELSE st
        s2 == pretty_print_at(this.lhs, s1, prec_none, FALSE)
        s3 == Put(s2, <<"=", "=">>)
        s4 == pretty_print_at(this.rhs, s3, prec_none, FALSE)
    IN  IF let_parent THEN Put(s4, <<")">>) ELSE s4

FunExpr_pretty_print_at(this, st, prec, let_parent) == st

CallExpr_pretty_print_at(this, st, prec, let_parent) == st

\* virtual dispatch of Expr::pretty_print_at
pretty_print_at(this, st, prec, let_parent) ==
    CASE this.kind = "Add" -> AddExpr_pretty_print_at(this, st, prec, let_parent)
      [] this.kind = "Mult" -> MultExpr_pretty_print_at(this, st, prec, let_parent)
      [] this.kind = "Num" -> Expr_pretty_print_at(this, st, prec, let_parent)
      [] this.kind = "Var" -> Expr_pretty_print_at(this, st, prec, let_parent)
      [] this.kind = "Let" -> LetExpr_pretty_print_at(this, st, prec, let_parent)
      [] this.kind = "Bool" -> BoolExpr_pretty_print_at(this, st, prec, let_parent)
      [] this.kind = "If" -> IfExpr_pretty_print_at(this, st, prec, let_parent)
      [] this.kind = "Eq" -> EqExpr_pretty_print_at(this, st, prec, let_parent)
      [] this.kind = "Fun" -> FunExpr_pretty_print_at(this, st, prec, let_parent)
      [] this.kind = "Call" -> CallExpr_pretty_print_at(this, st, prec, let_parent)

\* Expr::pretty_print
pretty_print(this, st) ==
    pretty_print_at(this, [st EXCEPT !.strmpos = 0], prec_none, FALSE)

\* Expr::to_pretty_string
to_pretty_string(this) == pretty_print(this, PState(<<>>, 0)).out

(* ------------------------------ istream -------------------------------- *)

\* istringstream in(s).  eof is the stream's eofbit; ub records that the
\* execution has run into undefined behaviour (signed overflow in parse_num).
Stream(s) == [s |-> s, pos |-> 1, eof |-> FALSE, ub |-> FALSE]

AtEnd(in) == in.pos > Len(in.s)

\* the value of in.peek(), and of in.get()
peek(in) == IF AtEnd(in) THEN EOF ELSE in.s[in.pos]

\* the stream after in.peek(): reading at the end sets eofbit
peeked(in) == IF AtEnd(in) THEN [in EXCEPT !.eof = TRUE] ELSE in

\* the stream after in.get()
got(in) == IF AtEnd(in) THEN [in EXCEPT !.eof = TRUE]
           ELSE [in EXCEPT !.pos = @ + 1]

(* ------------------------------- parser -------------------------------- *)

\* A parse function returns the expression and the stream it leaves, or the
\* runtime_error it throws (exc, "" when none).
Ok(e, in) == [exc |-> "", e |-> e, in |-> in]

Throw(msg, in) == [exc |-> msg, e |-> NoExpr, in |-> in]

Thrown(r) == r.exc # ""

\* r, then K on what r returned unless r threw: the exception propagates
Try(r, K(_)) == IF Thrown(r) THEN r ELSE K(r)

\* a local variable v in the rest K of a function body
With(v, K(_)) == K(v)

consume(in, expect) ==
    IF peek(in) # expect THEN Throw("consume mismatch", got(in))
    ELSE Ok(NoExpr, got(in))

RECURSIVE skip_whitespace(_)

\* skip_whitespace that consumes one whitespace character at most
skip_whitespace_once(in) ==
    IF ~isspace(peek(in)) THEN peeked(in)
    ELSE consume(in, peek(in)).in

skip_whitespace(in) ==
    IF ~isspace(peek(in)) THEN peeked(in)
    ELSE skip_whitespace(consume(in, peek(in)).in)

RECURSIVE consume_word(_, _)
consume_word(in, str) ==
    IF str = <<>> THEN Ok(NoExpr, in)
    ELSE IF peek(in) # Head(str) THEN Throw("consume mismatch", got(in))
    ELSE consume_word(got(in), Tail(str))

\* int is 32 bits wide; arithmetic that leaves its range is undefined
INT_MAX == 2147483647

INT_MIN == 0 - INT_MAX - 1

\* n*10 + d leaves the range of int, in the product or in the sum
Overflows(n, d) ==
    \/ n > (INT_MAX - d) \div 10
    \/ n < 0 - (INT_MAX \div 10)

\* n*10 + d as 32-bit two's complement arithmetic computes it, from the two
\* 16-bit halves of n
WrapMulAdd(n, d) ==
    With((n % 65536) * 10 + d, LAMBDA lo :
    With(((n \div 65536) * 10 + (lo \div 65536)) % 65536, LAMBDA hi :
        (IF hi >= 32768 THEN hi - 65536 ELSE hi) * 65536 + (lo % 65536)))

\* the digit loop of parse_num: n = n*10 + (c - '0') while a digit is next.
\* An overflow is undefined behaviour: the stream is marked, and n goes on
\* with the value wrapping arithmetic gives.
RECURSIVE parse_num_loop(_, _)
parse_num_loop(in, n) ==
    IF isdigit(peek(in))
    THEN parse_num_loop([got(in) EXCEPT !.ub = @ \/ Overflows(n, DigitVal(peek(in)))],
                        WrapMulAdd(n, DigitVal(peek(in))))
    ELSE [n |-> n, in |-> peeked(in)]

\* n * -1 overflows for the least int alone, and wraps to it
parse_num(in) ==
    With(peek(in) = "-", LAMBDA negative :
    With(IF negative THEN consume(in, "-").in ELSE peeked(in), LAMBDA in1 :
        IF negative /\ ~isdigit(peek(in1)) THEN Throw("not a num", peeked(in1))
        ELSE With(parse_num_loop(in1, 0), LAMBDA r :
                  Ok(NumExpr(IF negative /\ r.n # INT_MIN THEN r.n * (0 - 1) ELSE r.n),
                     [r.in EXCEPT !.ub = @ \/ (negative /\ r.n = INT_MIN)]))))

RECURSIVE parse_var_loop(_, _)
parse_var_loop(in, str) ==
    IF isalpha(peek(in)) THEN parse_var_loop(got(in), Append(str, peek(in)))
    ELSE Ok(VarExpr(str), peeked(in))

parse_var(in) == parse_var_loop(in, <<>>)

RECURSIVE parse_expr(_)

parse_let(in) ==
    Try(consume_word(skip_whitespace(in), <<"_", "l", "e", "t">>), LAMBDA w1 :
    With(parse_var(skip_whitespace(w1.in)), LAMBDA e :
    With(to_string(e.e), LAMBDA lhs :
    Try(consume(skip_whitespace(e.in), "="), LAMBDA c1 :
    Try(parse_expr(skip_whitespace(c1.in)), LAMBDA rhs :
    Try(consume_word(skip_whitespace(rhs.in), <<"_", "i", "n">>), LAMBDA w2 :
    Try(parse_expr(skip_whitespace(w2.in)), LAMBDA body :
        Ok(LetExpr(lhs, rhs.e, body.e), body.in))))))))

parse_multicand(in) ==
    With(skip_whitespace(in), LAMBDA in1 :
    With(peek(in1), LAMBDA c :
        IF c = "-" \/ isdigit(c) THEN parse_num(in1)
        ELSE IF c = "("
        THEN Try(parse_expr(consume(in1, "(").in), LAMBDA e :
             With(skip_whitespace(e.in), LAMBDA in2 :
                  IF peek(in2) # ")"
                  THEN Throw("missing close parenthesis", got(in2))
                  ELSE Ok(e.e, got(in2))))
        ELSE IF isalpha(c) THEN parse_var(in1)
        ELSE IF c = "_" THEN parse_let(in1)
        ELSE Throw("invalid input", consume(in1, c).in)))

RECURSIVE parse_addend(_)

\* parse_addend with the right operand of * read by parse_expr
parse_addend_rhs_expr(in) ==
    Try(parse_multicand(in), LAMBDA e :
    With(skip_whitespace(e.in), LAMBDA in1 :
        IF peek(in1) = "*"
        THEN Try(parse_expr(skip_whitespace(consume(in1, "*").in)), LAMBDA rhs :
                 Ok(MultExpr(e.e, rhs.e), rhs.in))
        ELSE Ok(e.e, in1)))

parse_addend(in) ==
    Try(parse_multicand(in), LAMBDA e :
    With(skip_whitespace(e.in), LAMBDA in1 :
        IF peek(in1) = "*"
        THEN Try(parse_addend(skip_whitespace(consume(in1, "*").in)), LAMBDA rhs :
                 Ok(MultExpr(e.e, rhs.e), rhs.in))
        ELSE Ok(e.e, in1)))

parse_expr(in) ==
    Try(parse_addend(in), LAMBDA e :
    With(skip_whitespace(e.in), LAMBDA in1 :
        IF peek(in1) = "+"
        THEN Try(parse_expr(consume(in1, "+").in), LAMBDA rhs :
                 Ok(AddExpr(e.e, rhs.e), rhs.in))
        ELSE Ok(e.e, in1)))

\* parse without the check that the input has ended
parse_unchecked_end(in) ==
    Try(parse_expr(in), LAMBDA e :
    With(skip_whitespace(e.in), LAMBDA in1 : Ok(e.e, in1)))

parse(in) ==
    Try(parse_expr(in), LAMBDA e :
    With(skip_whitespace(e.in), LAMBDA in1 :
        IF ~in1.eof THEN Throw("invalid input", in1) ELSE Ok(e.e, in1)))

parse_str(s) == parse(Stream(s))

(* --------------------------- values, environments ---------------------- *)

NumVal(n) == [kind |-> "NumVal", rep |-> n]

BoolVal(b) == [kind |-> "BoolVal", b |-> b]

FunVal(a, b, e) == [kind |-> "FunVal", formal_arg |-> a, body |-> b, env |-> e]

\* an exception leaving interp
Error(what) == [kind |-> "error", what |-> what]

UnboundVariableError == Error("unbound variable")

TypeError == Error("type error")

\* the process dies on an invalid memory access
Crash == [kind |-> "crash"]

Failed(o) == o.kind \in {"error", "crash"}

\* the null PTR(Env): interp was given no environment
nullptr == [kind |-> "nullptr"]

\* Env::empty
EmptyEnv == [kind |-> "EmptyEnv"]

ExtendedEnv(name, v, rest) ==
    [kind |-> "ExtendedEnv", name |-> name, val |-> v, rest |-> rest]

RECURSIVE lookup(_, _)
lookup(e, find_name) ==
    IF e.kind = "EmptyEnv" THEN UnboundVariableError
    ELSE IF find_name = e.name THEN e.val
    ELSE lookup(e.rest, find_name)

\* Val::equals
Val_equals(a, b) == a = b

\* Val::add_to
add_to(a, b) ==
    IF a.kind = "NumVal" /\ b.kind = "NumVal" THEN NumVal(a.rep + b.rep)
    ELSE TypeError

\* Val::mult_with
mult_with(a, b) ==
    IF a.kind = "NumVal" /\ b.kind = "NumVal" THEN NumVal(a.rep * b.rep)
    ELSE TypeError

\* BoolVal::is_true
is_true(v) == v.b

(* -------------------------------- interp ------------------------------- *)

\* interp(this, env) is the set of outcomes the call can end in: a value, an
\* Error or a Crash.  It has several elements where the build decides: the
\* order in which the two operands of one C++ expression are evaluated
\* (either may throw first), and a call through the null environment.

\* receiver->method(argument): the outcomes of both evaluation orders.
\* L, R are the outcome sets of receiver and argument, f(l, r) the outcomes of
\* the method on their values.
Operands(L, R, f(_, _)) ==
    UNION {IF Failed(l) THEN {l}
           ELSE UNION {IF Failed(r) THEN {r} ELSE f(l, r) : r \in R} : l \in L}
    \cup
    UNION {IF Failed(r) THEN {r}
           ELSE UNION {IF Failed(l) THEN {l} ELSE f(l, r) : l \in L} : r \in R}

\* if(env == nullptr) env = Env::empty;
OrEmpty(e) == IF e = nullptr THEN EmptyEnv ELSE e

RECURSIVE interp(_, _)

AddExpr_interp(this, e) ==
    LET add(l, r) == {add_to(l, r)}
    IN  Operands(interp(this.lhs, OrEmpty(e)), interp(this.rhs, OrEmpty(e)), add)

MultExpr_interp(this, e) ==
    LET mult(l, r) == {mult_with(l, r)}
    IN  Operands(interp(this.lhs, OrEmpty(e)), interp(this.rhs, OrEmpty(e)), mult)

NumExpr_interp(this, e) == {NumVal(this.rep)}

\* env->lookup(val) with no null check: through the null pointer the
\* behaviour is undefined
VarExpr_interp(this, e) ==
    IF e = nullptr THEN {Crash, UnboundVariableError}
    ELSE {lookup(e, this.val)}

\* LetExpr::interp with the body interpreted in env, not in new_env
LetExpr_interp_body_in_env(this, e) ==
    UNION {IF Failed(rhsValue) THEN {rhsValue}
           ELSE interp(this.body, OrEmpty(e))
           : rhsValue \in interp(this.rhs, OrEmpty(e))}

LetExpr_interp(this, e) ==
    UNION {IF Failed(rhsValue) THEN {rhsValue}
           ELSE interp(this.body, ExtendedEnv(this.lhs, rhsValue, OrEmpty(e)))
           : rhsValue \in interp(this.rhs, OrEmpty(e))}

BoolExpr_interp(this, e) == {BoolVal(this.b)}

\* IfExpr::interp that throws on a condition that is no BoolVal
IfExpr_interp_strict(this, e) ==
    UNION {IF Failed(conditionValue) THEN {conditionValue}
           ELSE IF conditionValue.kind # "BoolVal" THEN {TypeError}
           ELSE IF is_true(conditionValue) THEN interp(this.then_, OrEmpty(e))
           ELSE interp(this.else_, OrEmpty(e))
           : conditionValue \in interp(this.if_, OrEmpty(e))}

IfExpr_interp(this, e) ==
    UNION {IF Failed(conditionValue) THEN {conditionValue}
           ELSE IF conditionValue.kind = "BoolVal" /\ is_true(conditionValue)
                THEN interp(this.then_, OrEmpty(e))
                ELSE interp(this.else_, OrEmpty(e))
           : conditionValue \in interp(this.if_, OrEmpty(e))}

EqExpr_interp(this, e) ==
    LET eqv(r, l) == {BoolVal(Val_equals(r, l))}
    IN  Operands(interp(this.rhs, OrEmpty(e)), interp(this.lhs, OrEmpty(e)), eqv)

FunExpr_interp(this, e) == {FunVal(this.formal_arg, this.body, OrEmpty(e))}

\* FunVal::call; every other Val::call is a type error
call(f, actual_arg) ==
    IF f.kind = "FunVal"
    THEN interp(f.body, ExtendedEnv(f.formal_arg, actual_arg, f.env))
    ELSE {TypeError}

CallExpr_interp(this, e) ==
    Operands(interp(this.to_be_called, OrEmpty(e)),
             interp(this.actual_arg, OrEmpty(e)), call)

\* virtual dispatch of Expr::interp
interp(this, e) ==
    CASE this.kind = "Add" -> AddExpr_interp(this, e)
      [] this.kind = "Mult" -> MultExpr_interp(this, e)
      [] this.kind = "Num" -> NumExpr_interp(this, e)
      [] this.kind = "Var" -> VarExpr_interp(this, e)
      [] this.kind = "Let" -> LetExpr_interp(this, e)
      [] this.kind = "Bool" -> BoolExpr_interp(this, e)
      [] this.kind = "If" -> IfExpr_interp(this, e)
      [] this.kind = "Eq" -> EqExpr_interp(this, e)
      [] this.kind = "Fun" -> FunExpr_interp(this, e)
      [] this.kind = "Call" -> CallExpr_interp(this, e)

(* ------------------------ the expressions under test ------------------- *)

x == <<"x">>

y == <<"y">>

\* every expression of exactly n nodes over the given leaves and names
RECURSIVE ExprsOfSize(_, _, _)
ExprsOfSize(n, leaves, names) ==
    IF n = 1 THEN leaves
    ELSE {FunExpr(a, b) : a \in names, b \in ExprsOfSize(n - 1, leaves, names)}
         \cup UNION {UNION {{AddExpr(l, r), MultExpr(l, r), EqExpr(l, r), CallExpr(l, r)}
                            \cup {LetExpr(a, l, r) : a \in names}
                            : l \in ExprsOfSize(i, leaves, names),
                              r \in ExprsOfSize(n - 1 - i, leaves, names)}
                     : i \in 1..(n - 2)}
         \cup UNION {UNION {{IfExpr(c, l, r)
                             : c \in ExprsOfSize(i, leaves, names),
                               l \in ExprsOfSize(j, leaves, names),
                               r \in ExprsOfSize(n - 1 - i - j, leaves, names)}
                            : j \in 1..(n - 2 - i)}
                     : i \in 1..(n - 3)}

ExprsUpTo(n, leaves, names) == UNION {ExprsOfSize(i, leaves, names) : i \in 1..n}

Leaves == {NumExpr(1), NumExpr(0 - 20), BoolExpr(TRUE), BoolExpr(FALSE), VarExpr(x)}

\* _let x=1 _in _let f=_fun(y) x+y _in _let x=2 _in f 3, as a tree
ClosureExample ==
    LetExpr(x, NumExpr(1),
        LetExpr(<<"f">>, FunExpr(y, AddExpr(VarExpr(x), VarExpr(y))),
            LetExpr(x, NumExpr(2), CallExpr(VarExpr(<<"f">>), NumExpr(3)))))

\* _let x=1 _in _let x=2 _in x, as a tree
ShadowExample ==
    LetExpr(x, NumExpr(1), LetExpr(x, NumExpr(2), VarExpr(x)))

\* _let x=1 _in _if _true _then x _else 1, as a tree
IfInLetExample ==
    LetExpr(x, NumExpr(1), IfExpr(BoolExpr(TRUE), VarExpr(x), NumExpr(1)))

\* _if _true _then 1 _else _let x=1 _in x, as a tree
LetInIfExample ==
    IfExpr(BoolExpr(TRUE), NumExpr(1), LetExpr(x, NumExpr(1), VarExpr(x)))

\* _if (_fun (x) 1) _then x _else 1, as a tree
IfClosureExample ==
    IfExpr(FunExpr(x, NumExpr(1)), VarExpr(x), NumExpr(1))

\* (_let x=1 _in x) + x, as a tree
LetThenOuterExample ==
    AddExpr(LetExpr(x, NumExpr(1), VarExpr(x)), VarExpr(x))

Exprs ==
    ExprsUpTo(MaxNodes, Leaves, {x})
        \cup {ClosureExample, ShadowExample, IfInLetExample, LetInIfExample,
              IfClosureExample, LetThenOuterExample}

\* the smallest IfExpr trees: they differ in one, two or all three fields
IfExprs == {IfExpr(c, t, e) : c \in {BoolExpr(TRUE), VarExpr(x)},
                              t \in {NumExpr(1), VarExpr(x)},
                              e \in {NumExpr(1), NumExpr(2)}}

EqExprs ==
    ExprsUpTo(MaxEqNodes,
              {NumExpr(1), NumExpr(2), BoolExpr(TRUE), BoolExpr(FALSE),
               VarExpr(x), VarExpr(y)},
              {x, y})
        \cup IfExprs

\* the environments interp is called with
Envs ==
    {nullptr, EmptyEnv,
     ExtendedEnv(x, NumVal(2), EmptyEnv),
     ExtendedEnv(x, BoolVal(FALSE), EmptyEnv),
     ExtendedEnv(x, FunVal(x, VarExpr(x), EmptyEnv), EmptyEnv)}

(* --------------------------- the texts under test ---------------------- *)

kw_let == <<"_", "l", "e", "t">>

kw_in == <<"_", "i", "n">>

kw_fun == <<"_", "f", "u", "n">>

sp == <<" ">>

\* the pieces free-form inputs are put together from
Tokens ==
    {<<"1">>, <<"x">>, <<"+">>, <<"*">>, <<"(">>, <<")">>, <<"-">>, sp,
     kw_let \o sp \o <<"x", "=">>, kw_in}

RECURSIVE TokenTexts(_)
TokenTexts(n) ==
    IF n = 0 THEN {<<>>}
    ELSE LET shorter == TokenTexts(n - 1)
         IN  shorter \cup {s \o tok : s \in shorter, tok \in Tokens}

\* the operands of an operator chain: the text and the expression it denotes
ChainOperands ==
    {[text |-> <<"1">>, e |-> NumExpr(1)],
     [text |-> <<"x">>, e |-> VarExpr(x)],
     [text |-> <<" ", "-", "2", "3">>, e |-> NumExpr(0 - 23)],
     [text |-> <<"y", " ">>, e |-> VarExpr(y)]}

\* parenthesis-free inputs: n operands joined by + and *
RECURSIVE ChainTexts(_)
ChainTexts(n) ==
    IF n = 1 THEN {o.text : o \in ChainOperands}
    ELSE {o.text \o oper \o c : o \in ChainOperands, oper \in {<<"+">>, <<"*">>},
                                c \in ChainTexts(n - 1)}

Chains == UNION {ChainTexts(n) : n \in 1..MaxOperands}

\* _let x=1 _in _let f=_fun(y) x+y _in _let x=2 _in f 3
ClosureProgram ==
    kw_let \o sp \o <<"x", "=", "1">> \o sp \o kw_in \o sp
    \o kw_let \o sp \o <<"f", "=">> \o kw_fun \o <<"(", "y", ")", " ", "x", "+", "y">>
    \o sp \o kw_in \o sp
    \o kw_let \o sp \o <<"x", "=", "2">> \o sp \o kw_in \o sp \o <<"f", " ", "3">>

\* _let x=1 _in _let x=2 _in x
ShadowProgram ==
    kw_let \o sp \o <<"x", "=", "1">> \o sp \o kw_in \o sp
    \o kw_let \o sp \o <<"x", "=", "2">> \o sp \o kw_in \o sp \o x

\* the inputs the documentation gives as examples
Examples ==
    {ClosureProgram, ShadowProgram,
     <<"1", "+", "2", "*", "3">>,
     <<"(", "1", "+", "2", ")", "*", "3">>,
     <<"1", "+", "2", "+", "3">>,
     <<"2", "*", "3", "+", "4">>,
     <<"x">>,
     <<"1", "+">>,
     <<"(", "1", "+", "2">>,
     kw_let \o <<" ", "=", " ", "1", " ">> \o kw_in \o <<" ", "2">>}

\* runs of digits: small ones, the ends of the range of int, and beyond them
DigitTexts ==
    {<<"0">>,
     <<"7">>,
     <<"0", "4", "2">>,
     <<"2", "1", "4", "7", "4", "8", "3", "6", "3", "9">>,
     <<"2", "1", "4", "7", "4", "8", "3", "6", "4", "7">>,
     <<"2", "1", "4", "7", "4", "8", "3", "6", "4", "8">>,
     <<"4", "2", "9", "4", "9", "6", "7", "2", "9", "6">>,
     <<"9", "9", "9", "9", "9", "9", "9", "9", "9", "9", "9">>}

\* integer literals: an optional - and digits
Literals == DigitTexts \cup {<<"-">> \o d : d \in DigitTexts}

Inputs == TokenTexts(MaxTokens) \cup Chains \cup Examples \cup Literals

(* ------------------------------ the machine ---------------------------- *)

NoResult == [exc |-> "none", e |-> NoExpr]

NoVal == [kind |-> "none"]

\* what parse_str(s) ends in: the tree, or the exception; after undefined
\* behaviour either what a wrapping build computes or a trap
ParseOutcomes(s) ==
    LET r == parse_str(s) IN
    IF r.in.ub THEN {[exc |-> r.exc, e |-> r.e], [exc |-> "trap", e |-> NoExpr]}
    ELSE {[exc |-> r.exc, e |-> r.e]}

Fresh ==
    /\ text = <<>>
    /\ parsed = NoResult
    /\ env = nullptr
    /\ val = NoVal
    /\ eq = FALSE

\* a text handed to parse_str
InitParse ==
    /\ input \in Inputs
    /\ expr = NoExpr
    /\ other = NoExpr
    /\ op = "input"
    /\ Fresh

\* an expression built by the constructors
Init ==
    /\ input = <<>>
    /\ expr \in Exprs
    /\ other = NoExpr
    /\ op = "new"
    /\ Fresh

\* two expressions built by the constructors
InitEq ==
    /\ input = <<>>
    /\ expr \in EqExprs
    /\ other \in EqExprs
    /\ op = "new"
    /\ Fresh

\* e->to_string()
ToString ==
    /\ op \in {"new", "parse_str"}
    /\ expr # NoExpr
    /\ text' = to_string(expr)
    /\ op' = "to_string"
    /\ UNCHANGED <<input, expr, other, parsed, env, val, eq>>

\* e->to_pretty_string()
ToPrettyString ==
    /\ op \in {"new", "parse_str"}
    /\ expr # NoExpr
    /\ text' = to_pretty_string(expr)
    /\ op' = "to_pretty_string"
    /\ UNCHANGED <<input, expr, other, parsed, env, val, eq>>

\* parse_str of the text just printed
ParseBack ==
    /\ op \in {"to_string", "to_pretty_string"}
    /\ parsed' \in ParseOutcomes(text)
    /\ op' = IF op = "to_string" THEN "parse_string" ELSE "parse_pretty"
    /\ UNCHANGED <<input, expr, other, text, env, val, eq>>

\* e->interp(env), and e->interp() when env is the null pointer
Interp ==
    /\ op \in {"new", "parse_str"}
    /\ expr # NoExpr
    /\ \E e \in Envs : \E o \in interp(expr, e) : env' = e /\ val' = o
    /\ op' = "interp"
    /\ UNCHANGED <<input, expr, other, text, parsed, eq>>

\* e->equals(other)
Equals ==
    /\ op = "new"
    /\ other # NoExpr
    /\ eq' = equals(expr, other)
    /\ op' = "equals"
    /\ UNCHANGED <<input, expr, other, text, parsed, env, val>>

\* Expr* e = parse_str(input)
ParseInput ==
    /\ op = "input"
    /\ parsed' \in ParseOutcomes(input)
    /\ expr' = IF parsed'.exc = "" THEN parsed'.e ELSE NoExpr
    /\ op' = "parse_str"
    /\ UNCHANGED <<input, other, text, env, val, eq>>

Next == ToString \/ ToPrettyString \/ ParseBack \/ Interp

Spec == Init /\ [][Next]_vars

NextEq == Equals

SpecEq == InitEq /\ [][NextEq]_vars

NextParse == ParseInput \/ ToString \/ ToPrettyString \/ ParseBack \/ Interp

SpecParse == InitParse /\ [][NextParse]_vars

(* ------------------------------- claims -------------------------------- *)

\* C1: canonical round trip.  For every expression e of the ten variants,
\* parse_str(e.to_string()) returns a tree t, with no parse error, and
\* t.equals(e) is true.
C1_RoundTrip ==
    op = "parse_string" => parsed.exc = "" /\ equals(parsed.e, expr)

\* C2: pretty-print round trip.  For every expression e of the ten variants,
\* parse_str(e.to_pretty_string()) returns a tree t with t.equals(e) true.
C2_PrettyRoundTrip ==
    op = "parse_pretty" => parsed.exc = "" /\ equals(parsed.e, expr)

\* C3: interp with no environment ends, for every expression and a top-level
\* Var too, exactly as interp with the empty environment does; interp() of
\* the variable x ends in the unbound-variable error and in no other failure.
C3_NullEnvAsEmpty ==
    op = "interp" /\ env = nullptr =>
        /\ val \in interp(expr, EmptyEnv)
        /\ expr = VarExpr(x) => val = UnboundVariableError

\* C4: parse_str("_let x=1 _in _let f=_fun(y) x+y _in _let x=2 _in f 3")
\* returns a tree, and interp() of the tree is NumVal(4): the x of the
\* function body is the x = 1 captured when the _fun was evaluated.
C4_ClosureProgram ==
    op = "parse_str" /\ input = ClosureProgram =>
        /\ parsed.exc = ""
        /\ interp(parsed.e, nullptr) = {NumVal(4)}

\* C8: a.equals(b) is true exactly when a and b are the same variant with
\* every field recursively equal, so never for two different variants; and
\* equals is reflexive and symmetric.
C8_StructuralEquality ==
    op = "equals" =>
        /\ eq = (expr = other)
        /\ expr.kind # other.kind => ~eq
        /\ equals(other, expr) = eq
        /\ equals(expr, expr) /\ equals(other, other)

\* C8 happens: two Let that differ in the bound name alone are not equal.
C8_Witness ==
    /\ op = "equals"
    /\ expr.kind = "Let" /\ other.kind = "Let"
    /\ expr.lhs # other.lhs /\ expr.rhs = other.rhs /\ expr.body = other.body
    /\ ~eq

(* C5 *)

\* the first index of character c in s, 0 when there is none
RECURSIVE FirstIndexFrom(_, _, _)
FirstIndexFrom(s, c, i) ==
    IF i > Len(s) THEN 0
    ELSE IF s[i] = c THEN i
    ELSE FirstIndexFrom(s, c, i + 1)

FirstIndex(s, c) == FirstIndexFrom(s, c, 1)

\* the expression an operand text of a chain denotes
OperandOf(s) == (CHOOSE o \in ChainOperands : o.text = s).e

\* the grouping the grammar gives a parenthesis-free chain: a product is the
\* operands up to the first +, a sum is that product and the rest; both nest
\* to the right
RECURSIVE GroupedProduct(_)
GroupedProduct(s) ==
    IF FirstIndex(s, "*") = 0 THEN OperandOf(s)
    ELSE MultExpr(OperandOf(SubSeq(s, 1, FirstIndex(s, "*") - 1)),
                  GroupedProduct(SubSeq(s, FirstIndex(s, "*") + 1, Len(s))))

RECURSIVE Grouped(_)
Grouped(s) ==
    IF FirstIndex(s, "+") = 0 THEN GroupedProduct(s)
    ELSE AddExpr(GroupedProduct(SubSeq(s, 1, FirstIndex(s, "+") - 1)),
                 Grouped(SubSeq(s, FirstIndex(s, "+") + 1, Len(s))))

\* C5: the tree parse returns for operands joined by + and * groups every
\* run of * before any +, and both operators nest to the right; the
\* parenthesized operand of (1+2)*3 stays the subtree Mult(Add(1,2),3).
C5_Precedence ==
    op = "parse_str" =>
        /\ input \in Chains => parsed.exc = "" /\ parsed.e = Grouped(input)
        /\ input = <<"1", "+", "2", "*", "3">> =>
               parsed.e = AddExpr(NumExpr(1), MultExpr(NumExpr(2), NumExpr(3)))
        /\ input = <<"1", "+", "2", "+", "3">> =>
               parsed.e = AddExpr(NumExpr(1), AddExpr(NumExpr(2), NumExpr(3)))
        /\ input = <<"(", "1", "+", "2", ")", "*", "3">> =>
               parsed.e = MultExpr(AddExpr(NumExpr(1), NumExpr(2)), NumExpr(3))

\* C5 happens: a chain a*b+c+d was parsed.
C5_Witness ==
    /\ op = "parse_str"
    /\ input \in Chains
    /\ parsed.e.kind = "Add"
    /\ parsed.e.lhs.kind = "Mult"
    /\ parsed.e.rhs.kind = "Add"

(* C6 *)

\* the first index after i of a character that is no whitespace, 0 when
\* there is none
RECURSIVE NextNonSpace(_, _)
NextNonSpace(s, i) ==
    IF i + 1 > Len(s) THEN 0
    ELSE IF ~isspace(s[i + 1]) THEN i + 1
    ELSE NextNonSpace(s, i + 1)

\* an operand can begin at index j of s
StartsOperand(s, j) ==
    \/ isdigit(s[j]) \/ isalpha(s[j]) \/ s[j] = "-" \/ s[j] = "("
    \/ (j + 3 <= Len(s) /\ SubSeq(s, j, j + 3) = kw_let)

\* an operator has no operand after it
OperandMissing(s) ==
    \E i \in 1..Len(s) :
        /\ s[i] \in {"+", "*"}
        /\ NextNonSpace(s, i) = 0 \/ ~StartsOperand(s, NextNonSpace(s, i))

\* how many ( are open at the end of s, d of them being open before index i
RECURSIVE OpenAtEnd(_, _, _)
OpenAtEnd(s, i, d) ==
    IF i > Len(s) THEN d
    ELSE IF s[i] = "(" THEN OpenAtEnd(s, i + 1, d + 1)
    ELSE IF s[i] = ")" /\ d > 0 THEN OpenAtEnd(s, i + 1, d - 1)
    ELSE OpenAtEnd(s, i + 1, d)

\* a ( has no matching )
UnclosedParen(s) == OpenAtEnd(s, 1, 0) > 0

\* a - is not immediately followed by a digit
LoneMinus(s) ==
    \E i \in 1..Len(s) : s[i] = "-" /\ (i = Len(s) \/ ~isdigit(s[i + 1]))

\* a character that is no whitespace remains after one complete expression
TrailingText(s) ==
    /\ ~Thrown(parse_expr(Stream(s)))
    /\ \E i \in parse_expr(Stream(s)).in.pos..Len(s) : ~isspace(s[i])

\* C6: parse_str raises an error and returns no expression when the operand
\* after an operator is missing, when a ( has no matching ), when a - is not
\* immediately followed by a digit, and when anything but whitespace remains
\* after one complete expression; whitespace after it is accepted.
C6_MalformedIsError ==
    op = "parse_str" =>
        /\ OperandMissing(input) \/ UnclosedParen(input) \/ LoneMinus(input)
               \/ TrailingText(input)
           => parsed.exc # "" /\ parsed.e = NoExpr /\ expr = NoExpr
        /\ parsed.exc = "" =>
               /\ ~Thrown(parse_str(input \o <<" ", "\n">>))
               /\ parse_str(input \o <<" ", "\n">>).e = parsed.e

\* C6 happens: a complete expression followed by more text was rejected.
C6_Witness ==
    /\ op = "parse_str"
    /\ TrailingText(input)
    /\ ~OperandMissing(input) /\ ~UnclosedParen(input) /\ ~LoneMinus(input)
    /\ parsed.exc = "invalid input"

(* C7 *)

\* C7: interp of Let(name, rhs, body) in env evaluates rhs in env itself and
\* body in env extended with name bound to that value: the name in the body
\* is the value of rhs, the name in rhs is the outer one, the innermost
\* binding shadows (_let x=1 _in _let x=2 _in x is NumVal(2)), and after the
\* Let has returned env binds what it bound before.
C7_LetScoping ==
    /\ op = "interp" /\ expr.kind = "Let" =>
        /\ val \in UNION {IF Failed(v) THEN {v}
                          ELSE interp(expr.body, ExtendedEnv(expr.lhs, v, OrEmpty(env)))
                          : v \in interp(expr.rhs, OrEmpty(env))}
        /\ expr.body = VarExpr(expr.lhs) => val \in interp(expr.rhs, OrEmpty(env))
        /\ expr.rhs = VarExpr(expr.lhs) /\ lookup(OrEmpty(env), expr.lhs) = UnboundVariableError
               => val = UnboundVariableError
        /\ expr = ShadowExample => val = NumVal(2)
    /\ /\ op = "interp"
       /\ expr.kind = "Add" /\ expr.lhs.kind = "Let" /\ expr.rhs = VarExpr(x)
       /\ env = ExtendedEnv(x, NumVal(2), EmptyEnv)
       => \E l \in interp(expr.lhs, env) : val = l \/ val = add_to(l, NumVal(2))

\* C7 happens: the inner of two bindings of x was the one the body saw.
C7_Witness ==
    op = "interp" /\ expr = ShadowExample /\ val = NumVal(2)

(* C9 *)

\* C9: interp of If(c, t, e) is the result of t when c evaluates to
\* BoolVal(true) and otherwise, for BoolVal(false), a number or a closure,
\* the result of e, with no type error; the other branch is not evaluated,
\* so an error in it does not surface.
C9_IfPermissive ==
    op = "interp" /\ expr.kind = "If" =>
        /\ val \in UNION {IF Failed(c) THEN {c}
                          ELSE IF c = BoolVal(TRUE) THEN interp(expr.then_, OrEmpty(env))
                          ELSE interp(expr.else_, OrEmpty(env))
                          : c \in interp(expr.if_, OrEmpty(env))}
        /\ (/\ \A c \in interp(expr.if_, OrEmpty(env)) : ~Failed(c) /\ c # BoolVal(TRUE)
            /\ \A o \in interp(expr.else_, OrEmpty(env)) : ~Failed(o))
           => ~Failed(val)
        /\ (/\ interp(expr.if_, OrEmpty(env)) = {BoolVal(TRUE)}
            /\ \A o \in interp(expr.then_, OrEmpty(env)) : ~Failed(o))
           => ~Failed(val)

\* C9 happens: the condition was a closure, the else branch gave the result
\* and the then branch, which fails, was not evaluated.
C9_Witness ==
    /\ op = "interp" /\ expr.kind = "If"
    /\ \A c \in interp(expr.if_, OrEmpty(env)) : c.kind = "FunVal"
    /\ \A o \in interp(expr.then_, OrEmpty(env)) : Failed(o)
    /\ ~Failed(val)

(* C10 *)

\* the letters that follow the _ at index i of s
RECURSIVE WordFrom(_, _)
WordFrom(s, i) ==
    IF i > Len(s) \/ ~isalpha(s[i]) THEN <<>>
    ELSE <<s[i]>> \o WordFrom(s, i + 1)

\* Every _in of s[i..] is at the column of its _let and every _then and _else
\* at the column of its _if.  col is the column of index i; open is the stack
\* of the clauses that are open there, each with the column of its keyword.
RECURSIVE AlignedFrom(_, _, _, _)
AlignedFrom(s, i, col, open) ==
    IF i > Len(s) THEN TRUE
    ELSE IF s[i] = "\n" THEN AlignedFrom(s, i + 1, 0, open)
    ELSE IF s[i] # "_" THEN AlignedFrom(s, i + 1, col + 1, open)
    ELSE IF WordFrom(s, i + 1) \in {<<"l", "e", "t">>, <<"i", "f">>}
    THEN AlignedFrom(s, i + 1, col + 1,
                     <<[word |-> WordFrom(s, i + 1), col |-> col]>> \o open)
    ELSE IF WordFrom(s, i + 1) = <<"i", "n">>
    THEN /\ open # <<>>
         /\ open[1] = [word |-> <<"l", "e", "t">>, col |-> col]
         /\ AlignedFrom(s, i + 1, col + 1, Tail(open))
    ELSE IF WordFrom(s, i + 1) = <<"t", "h", "e", "n">>
    THEN /\ open # <<>>
         /\ open[1] = [word |-> <<"i", "f">>, col |-> col]
         /\ AlignedFrom(s, i + 1, col + 1,
                        <<[word |-> <<"t", "h", "e", "n">>, col |-> col]>> \o Tail(open))
    ELSE IF WordFrom(s, i + 1) = <<"e", "l", "s", "e">>
    THEN /\ open # <<>>
         /\ open[1] = [word |-> <<"t", "h", "e", "n">>, col |-> col]
         /\ AlignedFrom(s, i + 1, col + 1, Tail(open))
    ELSE AlignedFrom(s, i + 1, col + 1, open)

Aligned(s) == AlignedFrom(s, 1, 0, <<>>)

\* C10: in e.to_pretty_string() every _in starts at the column of its _let
\* and every _then and _else at the column of its _if, wherever the clause is
\* nested.
C10_ColumnAlignment ==
    op = "to_pretty_string" => Aligned(text)

(* C11 *)

\* s[i] and s[i+1] belong to one token: an identifier, a keyword, a number
\* with its sign (a keyword ends where _let or _in is complete)
InsideToken(s, i) ==
    /\ 1 <= i /\ i < Len(s)
    /\ \/ /\ isalpha(s[i]) /\ isalpha(s[i + 1])
          /\ ~(i >= 4 /\ SubSeq(s, i - 3, i) = kw_let)
          /\ ~(i >= 3 /\ SubSeq(s, i - 2, i) = kw_in)
       \/ isdigit(s[i]) /\ isdigit(s[i + 1])
       \/ s[i] = "-" /\ isdigit(s[i + 1])
       \/ s[i] = "_" /\ isalpha(s[i + 1])

\* the token boundaries of s: i stands for the place between s[i] and s[i+1]
Boundaries(s) == {i \in 0..Len(s) : ~InsideToken(s, i)}

\* s with ws put in at place i
Insert(s, i, ws) == SubSeq(s, 1, i) \o ws \o SubSeq(s, i + 1, Len(s))

\* s with ws put in at every token boundary from place i down to 0
RECURSIVE InsertDownFrom(_, _, _)
InsertDownFrom(s, i, ws) ==
    IF i < 0 THEN s
    ELSE InsertDownFrom(IF InsideToken(s, i) THEN s ELSE Insert(s, i, ws), i - 1, ws)

\* the runs of whitespace put in
Whitespaces == {<<" ">>, <<"\n", "\t", " ">>}

\* parse_str(s) returns a tree equal to e
ParsesTo(s, e) ==
    LET r == parse_str(s) IN ~Thrown(r) /\ equals(r.e, e)

\* C11: when parse_str(s) returns a tree, s with whitespace inserted at any
\* one token boundary, or at all of them, parses too, to an equal tree.
C11_WhitespaceInsensitive ==
    op = "parse_str" /\ parsed.exc = "" =>
        \A ws \in Whitespaces :
            /\ \A i \in Boundaries(input) : ParsesTo(Insert(input, i, ws), parsed.e)
            /\ ParsesTo(InsertDownFrom(input, Len(input), ws), parsed.e)

\* C11 happens: a _let was parsed whose _in is written right against the
\* body.
C11_Witness ==
    /\ op = "parse_str" /\ parsed.exc = ""
    /\ parsed.e.kind = "Let"
    /\ \E i \in Boundaries(input) :
           i >= 3 /\ i < Len(input) /\ SubSeq(input, i - 2, i) = kw_in
               /\ ~isspace(input[i + 1])

(* C12 *)

\* C12: to_string of Eq(l, r) is "(", the rendering of l, "==", the
\* rendering of r, ")": the left operand is written first, as pretty_print
\* writes it.
C12_EqPrintOrder ==
    op = "to_string" /\ expr.kind = "Eq" =>
        text = <<"(">> \o to_string(expr.lhs) \o <<"=", "=">>
                   \o to_string(expr.rhs) \o <<")">>

(* C13 *)

\* s is an optional - followed by one digit or more
IsLiteral(s) ==
    /\ Len(s) >= 1
    /\ s[1] = "-" => Len(s) >= 2
    /\ \A i \in 1..Len(s) : isdigit(s[i]) \/ (i = 1 /\ s[i] = "-")

\* the digits of a literal, without its sign and its leading zeros
RECURSIVE Significant(_)
Significant(s) ==
    IF s # <<>> /\ s[1] \in {"-", "0"} THEN Significant(Tail(s)) ELSE s

\* a <= b for two runs of digits of one length
RECURSIVE DigitsLE(_, _)
DigitsLE(a, b) ==
    \/ a = <<>>
    \/ DigitVal(a[1]) < DigitVal(b[1])
    \/ a[1] = b[1] /\ DigitsLE(Tail(a), Tail(b))

\* the value of the literal lies in [-2^31, 2^31 - 1]
InIntRange(s) ==
    LET limit == IF s[1] = "-" THEN NegDigits(INT_MIN) ELSE Digits(INT_MAX)
    IN  \/ Len(Significant(s)) < Len(limit)
        \/ Len(Significant(s)) = Len(limit) /\ DigitsLE(Significant(s), limit)

\* minus the number a run of digits denotes, v being minus that of the
\* digits before it
RECURSIVE MinusValue(_, _)
MinusValue(ds, v) ==
    IF ds = <<>> THEN v ELSE MinusValue(Tail(ds), v * 10 - DigitVal(ds[1]))

\* the value of a literal in the range of int
LiteralValue(s) ==
    IF s[1] = "-" THEN MinusValue(Significant(s), 0)
    ELSE 0 - MinusValue(Significant(s), 0)

\* C13: for every literal, an optional - and digits, whose value lies in
\* [-2^31, 2^31 - 1], parse_num returns Num of exactly that value and its
\* accumulator never overflows on the way.
C13_ExactLiteral ==
    op = "parse_str" /\ IsLiteral(input) /\ InIntRange(input) =>
        /\ parsed = [exc |-> "", e |-> NumExpr(LiteralValue(input))]
        /\ ~parse_str(input).in.ub

(* C14 *)

\* the names in a tree of the variants parse builds: every Var name and
\* every Let bound name
RECURSIVE NamesIn(_)
NamesIn(e) ==
    CASE e.kind = "Var" -> {e.val}
      [] e.kind \in {"Add", "Mult"} -> NamesIn(e.lhs) \cup NamesIn(e.rhs)
      [] e.kind = "Let" -> {e.lhs} \cup NamesIn(e.rhs) \cup NamesIn(e.body)
      [] OTHER -> {}

\* an identifier: one alphabetic character or more
WellFormedName(n) == n # <<>> /\ \A i \in 1..Len(n) : isalpha(n[i])

\* a _let of s is not followed by an identifier
LetWithoutName(s) ==
    \E i \in 1..Len(s) :
        /\ i + 3 <= Len(s) /\ SubSeq(s, i, i + 3) = kw_let
        /\ NextNonSpace(s, i + 3) = 0 \/ ~isalpha(s[NextNonSpace(s, i + 3)])

\* C14: in every tree parse_str returns each Var name and each Let bound
\* name is a non-empty run of alphabetic characters, and an input whose _let
\* is not followed by an identifier, as "_let = 1 _in 2", is a parse error.
C14_WellFormedNames ==
    op = "parse_str" =>
        /\ parsed.exc = "" => \A n \in NamesIn(parsed.e) : WellFormedName(n)
        /\ LetWithoutName(input) => parsed.exc # ""

====
